---- MODULE Spec2Model ----
(***************************************************************************)
(* Traffic telemetry and privacy-exposure analysis pipeline:               *)
(*   llm_web_agent/traffic_logger.py   (TrafficLogger)                     *)
(*   llm_web_agent/privacy_analyzer.py (PrivacyAnalyzer)                   *)
(*                                                                         *)
(* Seven specifications share the variables:                               *)
(*   Spec          one caller drives a TrafficLogger; the analyzer then    *)
(*                 loads the line-delimited store the logger wrote.        *)
(*   SpecSession   the same, on a logger from create_logging_session.      *)
(*   SpecExport    the same as Spec, where the analyzer loads the          *)
(*                 aggregate document export_summary wrote.                *)
(*   SpecStore     the analyzer and the comparator on stores of any        *)
(*                 content: missing, torn, blank lines, aggregate.         *)
(*   SpecConc      two caller threads share one TrafficLogger; every       *)
(*                 method is split at the points where CPython may switch  *)
(*                 threads.                                                *)
(*   SpecWrap      the threads of SpecConc when every record reaches the   *)
(*                 file in one write.                                      *)
(*   SpecAnalysis  the analyzer's pure passes (analyze_traffic,            *)
(*                 generate_privacy_label) over bounded event stores.      *)
(***************************************************************************)
EXTENDS Integers, Sequences, FiniteSets, TLC

VARIABLES
    logs,        \* TrafficLogger.logs: the in-memory event sequence
    session_id,  \* TrafficLogger.session_id
    now,         \* logical clock behind datetime.now()
    file,        \* the file at TrafficLogger.log_file
    warnings,    \* number of "Warning: Failed to write traffic log" lines printed
    handles,     \* request_log for each response in logs: the index of the
                 \* log_request return value the caller passed to log_response
    an_state,    \* PrivacyAnalyzer: "none" | "loaded" | "exit" | "crash"
    an_logs,     \* PrivacyAnalyzer.logs
    analysis,    \* last value returned by analyze_traffic()
    label,       \* last value returned by generate_privacy_label()
    pc,          \* SpecConc: position of each caller thread
    entry,       \* SpecConc: the log_entry local of each caller thread
    result,      \* what the last call of a TrafficLogger method returned
    summary_file,\* the file at the output_file given to export_summary
    cloud_file,  \* the file at the cloud_log_file given to compare_with_cloud
    comparison,  \* last value returned by compare_with_cloud()
    an_file      \* PrivacyAnalyzer.log_file: the path the analyzer was given

vars == <<logs, session_id, now, file, warnings, handles,
          an_state, an_logs, analysis, label, pc, entry,
          result, summary_file, cloud_file, comparison, an_file>>

-----------------------------------------------------------------------------
(* Bounds *)

\* log calls and start_session calls of one run (each reads the clock once)
MaxClock == 3
\* events appended to a store in SpecAnalysis
MaxStore == 3
\* plain external requests a SpecAnalysis store may start with
MaxFill == 21
\* sends the threads of SpecConc make in all
MaxSends == 2
\* appends to the store that fail in one run
MaxWarnings == 1
\* lines of a line-delimited store in SpecStore
MaxLines == 2

-----------------------------------------------------------------------------
(* Python values *)

\* None, for fields that hold a string
None == "<None>"

\* bool(s) for s a string or None
Truthy(s) == s # "" /\ s # None

\* dict.get(k, default) on a record
Get(d, k, default) == IF k \in DOMAIN d THEN d[k] ELSE default

LowerChar(c) ==
    CASE c = "A" -> "a" [] c = "B" -> "b" [] c = "C" -> "c" [] c = "D" -> "d"
      [] c = "E" -> "e" [] c = "F" -> "f" [] c = "G" -> "g" [] c = "H" -> "h"
      [] c = "I" -> "i" [] c = "J" -> "j" [] c = "K" -> "k" [] c = "L" -> "l"
      [] c = "M" -> "m" [] c = "N" -> "n" [] c = "O" -> "o" [] c = "P" -> "p"
      [] c = "Q" -> "q" [] c = "R" -> "r" [] c = "S" -> "s" [] c = "T" -> "t"
      [] c = "U" -> "u" [] c = "V" -> "v" [] c = "W" -> "w" [] c = "X" -> "x"
      [] c = "Y" -> "y" [] c = "Z" -> "z" [] OTHER -> c

\* str.lower()
RECURSIVE Lower(_)
Lower(s) ==
    IF s = "" THEN ""
    ELSE LowerChar(SubSeq(s, 1, 1)) \o Lower(SubSeq(s, 2, Len(s)))

\* sub in s, for strings
Contains(s, sub) ==
    \E i \in 1..(Len(s) - Len(sub) + 1) : SubSeq(s, i, i + Len(sub) - 1) = sub

\* s.startswith(prefix)
StartsWith(s, prefix) ==
    Len(s) >= Len(prefix) /\ SubSeq(s, 1, Len(prefix)) = prefix

\* A dict with string keys is a sequence of <<key, value>> pairs with distinct
\* keys, in insertion order.
Keys(d) == [i \in 1..Len(d) |-> d[i][1]]

RECURSIVE SumSeq(_)
SumSeq(s) == IF s = <<>> THEN 0 ELSE s[1] + SumSeq(Tail(s))

\* len(str(d)) for a dict of strings: "{'k': 'v', 'k2': 'v2'}"
DictReprLen(d) ==
    2 + SumSeq([i \in 1..Len(d) |-> Len(d[i][1]) + Len(d[i][2]) + 6])
      + (IF Len(d) > 1 THEN 2 * (Len(d) - 1) ELSE 0)

-----------------------------------------------------------------------------
(* urllib.parse.urlparse over the URLs the callers use *)

urlparse(url) ==
    CASE url = "http://localhost:11434/api/generate" ->
            [scheme |-> "http", netloc |-> "localhost:11434",
             hostname |-> "localhost", path |-> "/api/generate"]
      [] url = "https://api.example.com/search" ->
            [scheme |-> "https", netloc |-> "api.example.com",
             hostname |-> "api.example.com", path |-> "/search"]
      [] url = "https://html.duckduckgo.com/html/" ->
            [scheme |-> "https", netloc |-> "html.duckduckgo.com",
             hostname |-> "html.duckduckgo.com", path |-> "/html/"]

-----------------------------------------------------------------------------
(* The store file: text written in chunks *)

\* A file is [exists, lines, open]: lines is the sequence of its lines, each a
\* sequence of chunks; open says the last line has no line break yet.
NoFile == [exists |-> FALSE, lines |-> <<>>, open |-> FALSE]

\* json.dumps(record): the text of one record. The buffered file object hands
\* it to the operating system in one write or, when a write is short, as a head
\* and a rest.
dumps(e) == << [part |-> 1, of |-> e], [part |-> 2, of |-> e] >>

\* Whether json.loads accepts a line: it is the whole text of one record.
WellFormed(line) ==
    /\ Len(line) = 2
    /\ line[1].part = 1 /\ line[2].part = 2
    /\ line[1].of = line[2].of

\* json.loads(line) of a well-formed line
loads(line) == line[1].of

\* f.write(chunks) on a file opened in mode 'a': open() creates the file, the
\* text goes after what is there.
WriteChunks(f, chunks) ==
    IF chunks = <<>> THEN [f EXCEPT !.exists = TRUE]
    ELSE IF f.open
    THEN [f EXCEPT !.exists = TRUE,
                   !.lines[Len(f.lines)] = f.lines[Len(f.lines)] \o chunks]
    ELSE [f EXCEPT !.exists = TRUE, !.lines = Append(f.lines, chunks),
                   !.open = TRUE]

\* f.write('\n')
WriteNewline(f) ==
    IF f.open THEN [f EXCEPT !.open = FALSE]
    ELSE [f EXCEPT !.exists = TRUE, !.lines = Append(f.lines, <<>>)]

\* TrafficLogger._write_log when nothing fails: one record and its line break
WriteLine(f, e) == WriteNewline(WriteChunks(f, dumps(e)))

\* json.dump(obj, f, indent=2): the text of one document, kept as one chunk
\* (part 0) whatever line breaks the indentation puts in it
dump(obj) == << [part |-> 0, of |-> obj] >>

\* Whether a line is the text json.dump wrote
IsDocument(line) == Len(line) = 1 /\ line[1].part = 0

\* with open(output_file, 'w') as f: json.dump(obj, f, indent=2)
WriteDocument(obj) == [exists |-> TRUE, lines |-> << dump(obj) >>, open |-> TRUE]

-----------------------------------------------------------------------------
(* TrafficLogger *)

NoSession == <<>>

\* the paths the callers give: log_file of TrafficLogger, output_file of
\* export_summary
LogPath == "traffic_log.jsonl"
SummaryPath == "traffic_summary.json"

SessionNames == { "local_benchmark" }

\* The argument tuples callers pass to log_request.
RequestArgs ==
    { [method |-> "POST", url |-> "http://localhost:11434/api/generate",
       headers |-> << <<"Content-Type", "application/json">> >>,
       params |-> <<>>, data |-> "{}",
       query_type |-> "llm", query_text |-> "weather"],
      [method |-> "GET", url |-> "https://api.example.com/search",
       headers |-> << <<"User-Agent", "test">> >>,
       params |-> <<>>, data |-> None,
       query_type |-> "search", query_text |-> "weather"],
      [method |-> "GET", url |-> "https://api.example.com/search",
       headers |-> << <<"Authorization", "Bearer s3">>, <<"Accept", "*/*">>,
                      <<"X-Api-Key", "K9">> >>,
       params |-> << <<"key", "K1">>, <<"q", "news">> >>, data |-> None,
       query_type |-> "search", query_text |-> "news"],
      [method |-> "GET", url |-> "https://html.duckduckgo.com/html/",
       headers |-> <<>>,
       params |-> << <<"q", "news">> >>, data |-> None,
       query_type |-> None, query_text |-> None] }

StatusCodes == { 200 }

RedactTokensMutant == << "cookie", "token", "api-key", "secret" >>
RedactTokens == << "authorization", "cookie", "token", "api-key", "secret" >>

\* the dict comprehension of log_request
Redact(headers) ==
    [i \in 1..Len(headers) |->
        IF \E j \in 1..Len(RedactTokens) :
               Contains(Lower(headers[i][1]), RedactTokens[j])
        THEN <<headers[i][1], "[REDACTED]">>
        ELSE headers[i]]

\* log_entry of log_request, built when the clock reads t and the session id is sid
RequestEntry(a, t, sid) ==
    LET parsed_url == urlparse(a.url)
        base == [timestamp |-> t,
                 session_id |-> sid,
                 type |-> "request",
                 method |-> a.method,
                 url |-> a.url,
                 domain |-> parsed_url.netloc,
                 path |-> parsed_url.path,
                 scheme |-> parsed_url.scheme,
                 headers |-> a.headers,
                 params |-> a.params,
                 query_type |-> a.query_type,
                 query_text |-> a.query_text,
                 data_size |-> IF Truthy(a.data) THEN Len(a.data) ELSE 0,
                 params_size |-> IF a.params # <<>> THEN DictReprLen(a.params) ELSE 0,
                 is_localhost |->
                     parsed_url.hostname \in {"localhost", "127.0.0.1", "::1"}]
    IN  IF a.headers # <<>>
        THEN base @@ ("headers_redacted" :> Redact(a.headers))
        ELSE base

\* "request_id": len(self.logs) - 1, as a Python (0-based) list position
RequestId(theLogs, request_log) == Len(theLogs) - 1

\* log_entry of log_response; request_log is the position in theLogs (from 1)
\* of the entry log_request returned, which the caller passes back
ResponseEntry(theLogs, request_log, status_code, t, sid) ==
    [timestamp |-> t,
     session_id |-> sid,
     type |-> "response",
     request_id |-> RequestId(theLogs, request_log),
     status_code |-> status_code,
     headers |-> <<>>,
     response_size |-> 0,
     response_time |-> 0,
     url |-> Get(theLogs[request_log], "url", None),
     domain |-> Get(theLogs[request_log], "domain", None)]

IsRequest(e) == Get(e, "type", None) = "request"
IsResponse(e) == Get(e, "type", None) = "response"

\* positions of the request events of a sequence
RequestPositions(s) == { i \in 1..Len(s) : IsRequest(s[i]) }

\* what a method call handed back to its caller
Returned(op, value) == [op |-> op, value |-> value]

\* no method has returned yet
NoResult == [op |-> "none"]

start_sessionMutant(name) ==
    /\ an_state = "none"
    /\ now < MaxClock
    /\ now' = now + 1
    /\ session_id' = <<now + 1, name>>
    /\ logs' = [i \in 1..Len(logs) |->
                   [logs[i] EXCEPT !.session_id = <<now + 1, name>>]]
    /\ UNCHANGED <<file, warnings, handles, an_state, an_logs, analysis,
                   label, pc, entry,
                   result, summary_file, cloud_file, comparison, an_file>>
start_session(name) ==
    /\ an_state = "none"
    /\ now < MaxClock
    /\ now' = now + 1
    /\ session_id' = <<now + 1, name>>
    /\ UNCHANGED <<logs, file, warnings, handles, an_state, an_logs, analysis,
                   label, pc, entry,
                   result, summary_file, cloud_file, comparison, an_file>>

\* _write_log: the append succeeds, or open/write raises and a warning is printed
write_logMutant(e) ==
    \/ /\ file' = WriteLine(NoFile, e)
       /\ UNCHANGED warnings
    \/ /\ warnings < MaxWarnings
       /\ warnings' = warnings + 1
       /\ UNCHANGED file
write_log(e) ==
    \/ /\ file' = WriteLine(file, e)
       /\ UNCHANGED warnings
    \/ /\ warnings < MaxWarnings
       /\ warnings' = warnings + 1
       /\ UNCHANGED file

log_requestMutant(a) ==
    /\ an_state = "none"
    /\ now < MaxClock
    /\ now' = now + 1
    /\ LET log_entry == RequestEntry(a, now + 1, session_id)
       IN  \/ /\ file' = WriteLine(file, log_entry)
              /\ logs' = Append(logs, log_entry)
              /\ handles' = Append(handles, 0)
              /\ result' = Returned("log_request", log_entry)
              /\ UNCHANGED warnings
           \/ /\ warnings < MaxWarnings
              /\ warnings' = warnings + 1
              /\ result' = Returned("raise", log_entry)
              /\ UNCHANGED <<file, logs, handles, an_file>>
    /\ UNCHANGED <<session_id, an_state, an_logs, analysis, label, pc, entry,
                   summary_file, cloud_file, comparison, an_file>>
log_request(a) ==
    /\ an_state = "none"
    /\ now < MaxClock
    /\ now' = now + 1
    /\ LET log_entry == RequestEntry(a, now + 1, session_id)
       IN  /\ logs' = Append(logs, log_entry)
           /\ handles' = Append(handles, 0)
           /\ write_log(log_entry)
           /\ result' = Returned("log_request", log_entry)
    /\ UNCHANGED <<session_id, an_state, an_logs, analysis, label, pc, entry,
                   summary_file, cloud_file, comparison, an_file>>

log_responseMutant(request_log, status_code) ==
    /\ an_state = "none"
    /\ now < MaxClock
    /\ now' = now + 1
    /\ LET log_entry ==
               ResponseEntry(logs, request_log, status_code, now + 1, session_id)
       IN  /\ logs' = Append([logs EXCEPT ![request_log].data_size = status_code],
                             log_entry)
           /\ handles' = Append(handles, request_log)
           /\ write_log(log_entry)
           /\ result' = Returned("log_response", log_entry)
    /\ UNCHANGED <<session_id, an_state, an_logs, analysis, label, pc, entry,
                   summary_file, cloud_file, comparison, an_file>>
log_response(request_log, status_code) ==
    /\ an_state = "none"
    /\ now < MaxClock
    /\ now' = now + 1
    /\ LET log_entry ==
               ResponseEntry(logs, request_log, status_code, now + 1, session_id)
       IN  /\ logs' = Append(logs, log_entry)
           /\ handles' = Append(handles, request_log)
           /\ write_log(log_entry)
           /\ result' = Returned("log_response", log_entry)
    /\ UNCHANGED <<session_id, an_state, an_logs, analysis, label, pc, entry,
                   summary_file, cloud_file, comparison, an_file>>

\* requests = [log for log in self.logs if log.get("type") == "request"]
SummaryRequestsMutant == logs
SummaryRequests == SelectSeq(logs, IsRequest)

\* get_summary(): {} when nothing was logged
get_summary ==
    IF logs = <<>> THEN <<>>
    ELSE
    LET requests == SummaryRequests
        responses == SelectSeq(logs, IsResponse)
        names == { Get(requests[i], "domain", "unknown") : i \in 1..Len(requests) }
        first(d) == CHOOSE i \in 1..Len(requests) :
                       /\ Get(requests[i], "domain", "unknown") = d
                       /\ \A j \in 1..(i - 1) :
                              Get(requests[j], "domain", "unknown") # d
    IN  [total_requests |-> Len(requests),
         total_responses |-> Len(responses),
         localhost_requests |->
             Cardinality({ i \in 1..Len(requests) :
                             Get(requests[i], "is_localhost", FALSE) }),
         external_requests |->
             Cardinality({ i \in 1..Len(requests) :
                             ~Get(requests[i], "is_localhost", FALSE) }),
         unique_domains |-> Cardinality(names),
         domains |->
             [d \in names |->
                 [count |-> Cardinality({ i \in 1..Len(requests) :
                                Get(requests[i], "domain", "unknown") = d }),
                  is_localhost |->
                      Get(requests[first(d)], "is_localhost", FALSE)]],
         session_id |-> session_id]

\* summary = self.get_summary(); summary["all_logs"] = self.logs
export_summaryMutant == get_summary @@ ("all_logs" :> SelectSeq(logs, IsRequest))
export_summary == get_summary @@ ("all_logs" :> logs)

-----------------------------------------------------------------------------
(* PrivacyAnalyzer._load_logs *)

\* json.load(f) on the whole text succeeds when the text is one JSON document:
\* what json.dump wrote, or a file of exactly one well-formed line.
IsOneDocument(f) ==
    Len(f.lines) = 1 /\ (WellFormed(f.lines[1]) \/ IsDocument(f.lines[1]))

\* line.strip() is empty
Blank(line) == line = <<>>

NonBlank(line) == ~Blank(line)

\* The body of "with open(self.log_file) as f" on an existing file f.
\*   "crash"  json.loads(line) raises JSONDecodeError inside the except
\*            clause, which nothing catches
read_logs(f) ==
    IF IsOneDocument(f)
    THEN LET data == loads(f.lines[1])
         IN  [state |-> "loaded",
              logs |-> IF "all_logs" \in DOMAIN data THEN data.all_logs
                       ELSE Get(data, "logs", <<>>)]
    ELSE LET lines == SelectSeq(f.lines, NonBlank)
         IN  IF \E i \in 1..Len(lines) : ~WellFormed(lines[i])
             THEN [state |-> "crash", logs |-> <<>>]
             ELSE [state |-> "loaded",
                   logs |-> [i \in 1..Len(lines) |-> loads(lines[i])]]

\* The outcome of _load_logs on file f: [state, logs].
\*   "exit"   FileNotFoundError: message and sys.exit(1)
load_logsMutant(f) ==
    IF ~f.exists THEN [state |-> "loaded", logs |-> <<>>] ELSE read_logs(f)
load_logs(f) ==
    IF ~f.exists THEN [state |-> "exit", logs |-> <<>>] ELSE read_logs(f)

-----------------------------------------------------------------------------
(* PrivacyAnalyzer.analyze_traffic *)

SensitiveHeaders ==
    << "user-agent", "referer", "cookie", "accept", "accept-language",
       "accept-encoding", "dnt", "connection", "upgrade-insecure-requests" >>

SensitiveKeywords ==
    << "key", "token", "api", "secret", "auth", "session", "id", "uid" >>

ApiKeyNames == { "key", "api_key", "apikey" }

\* any(t in s for t in tokens)
AnyIn(tokens, s) == \E j \in 1..Len(tokens) : Contains(s, tokens[j])

\* d[k] += 1 on a defaultdict(int)
IncrMutant(d, k) ==
    IF \E i \in 1..Len(d) : d[i][1] = k
    THEN [i \in 1..Len(d) |-> IF d[i][1] = k THEN <<k, 1>> ELSE d[i]]
    ELSE Append(d, <<k, 1>>)
Incr(d, k) ==
    IF \E i \in 1..Len(d) : d[i][1] = k
    THEN [i \in 1..Len(d) |-> IF d[i][1] = k THEN <<k, d[i][2] + 1>> ELSE d[i]]
    ELSE Append(d, <<k, 1>>)

\* d[k].append(v) on a defaultdict(list)
AppendTo(d, k, v) ==
    IF \E i \in 1..Len(d) : d[i][1] = k
    THEN [i \in 1..Len(d) |->
              IF d[i][1] = k THEN <<k, Append(d[i][2], v)>> ELSE d[i]]
    ELSE Append(d, <<k, <<v>> >>)

assess_header_risk(header_name, header_value) ==
    LET header_lower == Lower(header_name)
    IN  IF Contains(header_lower, "user-agent")
        THEN "HIGH - Browser fingerprinting"
        ELSE IF Contains(header_lower, "cookie")
        THEN "HIGH - Tracking cookies"
        ELSE IF Contains(header_lower, "referer")
        THEN "MEDIUM - Referrer leakage"
        ELSE IF Contains(header_lower, "accept-language")
        THEN "MEDIUM - Language/location inference"
        ELSE IF Contains(header_lower, "accept")
        THEN "LOW - Content negotiation"
        ELSE "LOW - Standard header"

\* header_value[:50] + "..." if len(str(header_value)) > 50 else header_value
TruncateValue(v) == IF Len(v) > 50 THEN SubSeq(v, 1, 50) \o "..." ELSE v

\* the loop over req["headers"]
RECURSIVE HeadersPass(_, _, _)
HeadersPass(headers_analysis, headers, domain) ==
    IF headers = <<>> THEN headers_analysis
    ELSE
    LET header_name == headers[1][1]
        header_value == headers[1][2]
        finding == [domain |-> domain,
                    value |-> TruncateValue(header_value),
                    privacy_risk |-> assess_header_risk(header_name, header_value)]
    IN  HeadersPass(
            IF AnyIn(SensitiveHeaders, Lower(header_name))
            THEN AppendTo(headers_analysis, header_name, finding)
            ELSE headers_analysis,
            Tail(headers), domain)

\* the parameters of one request that the loop over req["params"] lists as
\* sensitive, in order
IsSensitiveParam(p) == AnyIn(SensitiveKeywords, Lower(p[1]))

IsApiKeyParam(p) == IsSensitiveParam(p) /\ Lower(p[1]) \in ApiKeyNames

\* session_id[:20] + "..." if len(session_id) > 20 else session_id: an id is
\* <<time, name>>, written "<26-character ISO time>_<name>", so the first 20
\* characters are a prefix of the time
TruncateSession(sid) ==
    IF 26 + 1 + Len(sid[2]) > 20 THEN <<sid[1], "...">> ELSE sid

\* req.get("is_localhost") is truthy
IsLocalhostMutant(req) == Get(req, "is_local", FALSE)
IsLocalhost(req) == Get(req, "is_localhost", FALSE)

\* analysis["domains_contacted"][domain] += 1
CountDomain(a, req) ==
    [a EXCEPT !.domains_contacted =
                  Incr(a.domains_contacted, Get(req, "domain", "unknown"))]

\* the loop body for a request with is_localhost truthy: continue
LocalhostStepMutant(a, req) == [CountDomain(a, req) EXCEPT !.localhost_only = TRUE]
LocalhostStep(a, req) == CountDomain(a, req)

\* if domain not in analysis["external_domains"]: append it
AddDomainMutant(external_domains, domain) == Append(external_domains, domain)
AddDomain(external_domains, domain) ==
    IF \E i \in 1..Len(external_domains) : external_domains[i] = domain
    THEN external_domains
    ELSE Append(external_domains, domain)

\* the loop body for a request with is_localhost falsy
ExternalStep(a, req) ==
    LET domain == Get(req, "domain", "unknown")
        query_text == Get(req, "query_text", None)
        headers == Get(req, "headers", <<>>)
        params == Get(req, "params", <<>>)
        timestamp == Get(req, "timestamp", 0)
        sid == Get(req, "session_id", NoSession)
    IN  [CountDomain(a, req) EXCEPT
            !.localhost_only = FALSE,
            !.ip_address_exposure = TRUE,
            !.external_domains = AddDomain(a.external_domains, domain),
            !.query_data_leaked =
                IF Truthy(query_text)
                THEN Append(a.query_data_leaked,
                            [domain |-> domain, query |-> query_text,
                             url |-> Get(req, "url", None)])
                ELSE a.query_data_leaked,
            !.headers_analysis = HeadersPass(a.headers_analysis, headers, domain),
            !.api_keys_exposed =
                a.api_keys_exposed \o
                [i \in 1..Len(SelectSeq(params, IsApiKeyParam)) |->
                    [domain |-> domain,
                     param |-> SelectSeq(params, IsApiKeyParam)[i][1],
                     exposed |-> TRUE]],
            !.metadata_exposure =
                IF params # <<>>
                THEN Append(a.metadata_exposure,
                            [domain |-> domain,
                             params |-> params,
                             sensitive_params |->
                                 Keys(SelectSeq(params, IsSensitiveParam))])
                ELSE a.metadata_exposure,
            !.timing_patterns =
                IF timestamp # 0
                THEN Append(a.timing_patterns,
                            [domain |-> domain, timestamp |-> timestamp])
                ELSE a.timing_patterns,
            !.session_tracking =
                IF sid # NoSession /\ ~IsLocalhost(req)
                THEN Append(a.session_tracking,
                            [domain |-> domain,
                             session_id |-> TruncateSession(sid)])
                ELSE a.session_tracking]

\* One pass of the loop body of analyze_traffic over request req.
AnalyzeStep(a, req) ==
    IF IsLocalhost(req) THEN LocalhostStep(a, req) ELSE ExternalStep(a, req)

\* the dict analyze_traffic starts from
StartAnalysisMutant(requests) ==
    [total_requests |-> Len(requests),
     domains_contacted |-> <<>>,
     localhost_only |-> requests # <<>>,
     external_domains |-> <<>>,
     query_data_leaked |-> <<>>,
     headers_analysis |-> <<>>,
     metadata_exposure |-> <<>>,
     api_keys_exposed |-> <<>>,
     ip_address_exposure |-> FALSE,
     timing_patterns |-> <<>>,
     session_tracking |-> <<>>]
StartAnalysis(requests) ==
    [total_requests |-> Len(requests),
     domains_contacted |-> <<>>,
     localhost_only |-> TRUE,
     external_domains |-> <<>>,
     query_data_leaked |-> <<>>,
     headers_analysis |-> <<>>,
     metadata_exposure |-> <<>>,
     api_keys_exposed |-> <<>>,
     ip_address_exposure |-> FALSE,
     timing_patterns |-> <<>>,
     session_tracking |-> <<>>]

RECURSIVE AnalyzeLoop(_, _)
AnalyzeLoop(a, requests) ==
    IF requests = <<>> THEN a
    ELSE AnalyzeLoop(AnalyzeStep(a, requests[1]), Tail(requests))

analyze_trafficMutant(theLogs) ==
    LET requests == SelectSeq(theLogs, LAMBDA log : "type" \in DOMAIN log)
    IN  AnalyzeLoop(StartAnalysis(requests), requests)
analyze_traffic(theLogs) ==
    LET requests == SelectSeq(theLogs, IsRequest)
    IN  AnalyzeLoop(StartAnalysis(requests), requests)

-----------------------------------------------------------------------------
(* PrivacyAnalyzer.generate_privacy_label *)

IsHigh(v) == StartsWith(Get(v, "privacy_risk", ""), "HIGH")

\* sum(1 for values in headers_analysis.values() for v in values if HIGH)
HighRiskCount(a) ==
    SumSeq([i \in 1..Len(a.headers_analysis) |->
               Len(SelectSeq(a.headers_analysis[i][2], IsHigh))])

\* max(0, score)
FloorMutant(score) == score
Floor(score) == IF score > 0 THEN score ELSE 0

\* the deduction for timing correlation risk
TimingDeductionMutant(a) == IF Len(a.timing_patterns) > 10 THEN 3 ELSE 0
TimingDeduction(a) == IF Len(a.timing_patterns) > 20 THEN 3 ELSE 0

\* score before max(0, score)
RawScore(a) ==
    100 - Len(a.external_domains) * 10
        - Len(a.query_data_leaked) * 5
        - Len(a.api_keys_exposed) * 15
        - Len(a.headers_analysis) * 3
        - HighRiskCount(a) * 5
        - (IF a.ip_address_exposure THEN 5 ELSE 0)
        - TimingDeduction(a)

\* label["privacy_score"] of the else branch
PrivacyScore(a) == Floor(RawScore(a))

\* f-strings with numbers in them are tuples <<text, number or list>>
DataExits(a) ==
    LET high_risk_headers ==
            Keys(SelectSeq(a.headers_analysis,
                           LAMBDA kv : \E i \in 1..Len(kv[2]) : IsHigh(kv[2][i])))
    IN  (IF a.query_data_leaked # <<>>
         THEN << <<"Search queries (unique queries)",
                   Cardinality({ a.query_data_leaked[i].query :
                                   i \in 1..Len(a.query_data_leaked) })>> >>
         ELSE <<>>)
     \o (IF a.headers_analysis # <<>>
         THEN << <<"HTTP headers", Keys(a.headers_analysis)>> >>
         ELSE <<>>)
     \o (IF a.metadata_exposure # <<>>
         THEN << <<"URL parameters and metadata (sensitive parameters)",
                   SumSeq([i \in 1..Len(a.metadata_exposure) |->
                              Len(a.metadata_exposure[i].sensitive_params)])>> >>
         ELSE <<>>)
     \o (IF a.api_keys_exposed # <<>>
         THEN << <<"API keys/tokens (exposed)", Len(a.api_keys_exposed)>> >>
         ELSE <<>>)
     \o (IF a.ip_address_exposure
         THEN << <<"IP address (implicit via external connection)">> >>
         ELSE <<>>)
     \o (IF a.headers_analysis # <<>> /\ high_risk_headers # <<>>
         THEN << <<"Browser fingerprinting headers", high_risk_headers>> >>
         ELSE <<>>)
     \o (IF Len(a.timing_patterns) > 10
         THEN << <<"Timing patterns (requests) - correlation possible",
                   Len(a.timing_patterns)>> >>
         ELSE <<>>)

Recommendations(a, score) ==
       (IF score < 50
        THEN << <<"Consider using local/self-hosted alternatives">> >> ELSE <<>>)
    \o (IF a.query_data_leaked # <<>>
        THEN << <<"Queries are being sent to external servers">> >> ELSE <<>>)
    \o (IF a.api_keys_exposed # <<>>
        THEN << <<"WARNING: API keys/tokens exposed in requests",
                  Len(a.api_keys_exposed)>> >>
        ELSE <<>>)
    \o (IF a.ip_address_exposure
        THEN << <<"IP address exposed to external servers">> >> ELSE <<>>)
    \o (IF HighRiskCount(a) > 0
        THEN << <<"Browser fingerprinting detected via high-risk headers",
                  HighRiskCount(a)>> >>
        ELSE <<>>)
    \o (IF Len(a.external_domains) > 3
        THEN << <<"Multiple external services contacted">> >> ELSE <<>>)

\* the label built from the analysis a
LabelOf(a) ==
    IF a.localhost_only
    THEN [system |-> "Local/Self-Hosted",
          data_exits_device |-> << <<"None - all traffic stays local">> >>,
          who_has_access |-> << "Only local system" >>,
          retention_policy |-> "No external retention",
          privacy_score |-> 100,
          recommendations |-> << <<"Excellent privacy - no data leaves device">> >>]
    ELSE [system |-> "Cloud/External",
          data_exits_device |-> DataExits(a),
          who_has_access |-> a.external_domains,
          retention_policy |-> "Unknown - check provider privacy policy",
          privacy_score |-> PrivacyScore(a),
          recommendations |-> Recommendations(a, PrivacyScore(a))]

generate_privacy_label(theLogs) == LabelOf(analyze_traffic(theLogs))

-----------------------------------------------------------------------------
(* The analyzer's operations on a store the logger wrote (Spec) *)

\* nothing returned yet
NotComputed == [computed |-> FALSE]

\* PrivacyAnalyzer(log_file): __init__ runs _load_logs. The analyzer runs on the
\* log of a finished logging session: the logger's operations are enabled only
\* while an_state = "none".
Load ==
    /\ an_state = "none"
    /\ LET r == load_logs(file)
       IN  an_state' = r.state /\ an_logs' = r.logs
    /\ an_file' = LogPath
    /\ UNCHANGED <<logs, session_id, now, file, warnings, handles, analysis,
                   label, pc, entry,
                   result, summary_file, cloud_file, comparison>>

\* PrivacyAnalyzer(output_file) on the document export_summary wrote
LoadSummary ==
    /\ an_state = "none"
    /\ summary_file.exists
    /\ LET r == load_logs(summary_file)
       IN  an_state' = r.state /\ an_logs' = r.logs
    /\ an_file' = SummaryPath
    /\ UNCHANGED <<logs, session_id, now, file, warnings, handles, analysis,
                   label, pc, entry,
                   result, summary_file, cloud_file, comparison>>

\* export_report(): the report holds analyze_traffic() and
\* generate_privacy_label()
ExportReport ==
    /\ an_state = "loaded"
    /\ analysis = NotComputed
    /\ analysis' = analyze_traffic(an_logs)
    /\ label' = LabelOf(analysis')
    /\ UNCHANGED <<logs, session_id, now, file, warnings, handles, an_state,
                   an_logs, pc, entry,
                   result, summary_file, cloud_file, comparison, an_file>>

\* the comparison dict built at clock reading t from the events of the local
\* analyzer and those the cloud analyzer loaded
ComparisonMutant(local_logs, cloud_logs, t) ==
    LET local_analysis == analyze_traffic(local_logs)
        local_label == LabelOf(local_analysis)
        cloud_analysis == analyze_traffic(local_logs \o cloud_logs)
        cloud_label == LabelOf(cloud_analysis)
    IN  [comparison_date |-> t,
         local_system |->
             [analysis |-> local_analysis, privacy_label |-> local_label],
         cloud_system |->
             [analysis |-> cloud_analysis, privacy_label |-> cloud_label],
         key_differences |->
             [external_domains |->
                  [local |-> Len(local_analysis.external_domains),
                   cloud |-> Len(cloud_analysis.external_domains)],
              query_exposure |->
                  [local |-> Len(local_analysis.query_data_leaked),
                   cloud |-> Len(cloud_analysis.query_data_leaked)],
              privacy_score |->
                  [local |-> local_label.privacy_score,
                   cloud |-> cloud_label.privacy_score]]]
Comparison(local_logs, cloud_logs, t) ==
    LET local_analysis == analyze_traffic(local_logs)
        local_label == LabelOf(local_analysis)
        cloud_analysis == analyze_traffic(cloud_logs)
        cloud_label == LabelOf(cloud_analysis)
    IN  [comparison_date |-> t,
         local_system |->
             [analysis |-> local_analysis, privacy_label |-> local_label],
         cloud_system |->
             [analysis |-> cloud_analysis, privacy_label |-> cloud_label],
         key_differences |->
             [external_domains |->
                  [local |-> Len(local_analysis.external_domains),
                   cloud |-> Len(cloud_analysis.external_domains)],
              query_exposure |->
                  [local |-> Len(local_analysis.query_data_leaked),
                   cloud |-> Len(cloud_analysis.query_data_leaked)],
              privacy_score |->
                  [local |-> local_label.privacy_score,
                   cloud |-> cloud_label.privacy_score]]]

\* compare_with_cloud(cloud_log_file): PrivacyAnalyzer(cloud_log_file) loads the
\* cloud store; when that load exits or crashes, so does the call
CompareWithCloud ==
    /\ an_state = "loaded"
    /\ now < MaxClock
    /\ LET r == load_logs(cloud_file)
       IN  IF r.state = "loaded"
           THEN /\ comparison' = Comparison(an_logs, r.logs, now + 1)
                /\ now' = now + 1
                /\ UNCHANGED an_state
           ELSE /\ an_state' = r.state
                /\ UNCHANGED <<comparison, now, an_file>>
    /\ UNCHANGED <<logs, session_id, file, warnings, handles, an_logs,
                   analysis, label, pc, entry, result, summary_file, cloud_file, an_file>>

NoThreads == <<>>

Init ==
    /\ logs = <<>>
    /\ session_id = NoSession
    /\ now = 0
    /\ file = NoFile
    /\ warnings = 0
    /\ handles = <<>>
    /\ an_state = "none"
    /\ an_logs = <<>>
    /\ analysis = NotComputed
    /\ label = NotComputed
    /\ pc = NoThreads
    /\ entry = NoThreads
    /\ result = NoResult
    /\ summary_file = NoFile
    /\ cloud_file = NoFile
    /\ comparison = NotComputed
    /\ an_file = None

StartSession == \E name \in SessionNames : start_session(name)

LogRequest == \E a \in RequestArgs : log_request(a)

LogResponse ==
    \E request_log \in RequestPositions(logs), status_code \in StatusCodes :
        log_response(request_log, status_code)

\* a caller asks for get_summary()
GetSummary ==
    /\ an_state = "none"
    /\ result' = Returned("get_summary", get_summary)
    /\ UNCHANGED <<logs, session_id, now, file, warnings, handles, an_state,
                   an_logs, analysis, label, pc, entry, summary_file,
                   cloud_file, comparison, an_file>>

\* a caller asks for export_summary(output_file); the callers name a summary
\* file of their own (benchmark.py:255, cloud_benchmark.py:285), never log_file
ExportSummary ==
    /\ an_state = "none"
    /\ summary_file' = WriteDocument(export_summary)
    /\ result' = Returned("export_summary", export_summary)
    /\ UNCHANGED <<logs, session_id, now, file, warnings, handles, an_state,
                   an_logs, analysis, label, pc, entry, cloud_file, comparison, an_file>>

Next ==
    \/ StartSession
    \/ LogRequest
    \/ LogResponse
    \/ GetSummary
    \/ ExportSummary
    \/ Load
    \/ ExportReport

Spec == Init /\ [][Next]_vars

\* create_logging_session(): the logger is handed out with its session
\* started, at a clock reading of 0; the caller then uses it as in Spec
InitSession ==
    /\ logs = <<>>
    /\ session_id = <<0, "session">>
    /\ now = 0
    /\ file = NoFile
    /\ warnings = 0
    /\ handles = <<>>
    /\ an_state = "none"
    /\ an_logs = <<>>
    /\ analysis = NotComputed
    /\ label = NotComputed
    /\ pc = NoThreads
    /\ entry = NoThreads
    /\ result = NoResult
    /\ summary_file = NoFile
    /\ cloud_file = NoFile
    /\ comparison = NotComputed
    /\ an_file = None

SpecSession == InitSession /\ [][Next]_vars

\* The logger's operations, then the analyzer on the exported document.
NextExport ==
    \/ StartSession
    \/ LogRequest
    \/ LogResponse
    \/ GetSummary
    \/ ExportSummary
    \/ LoadSummary

SpecExport == Init /\ [][NextExport]_vars

-----------------------------------------------------------------------------
(* The analyzer's passes over bounded stores (SpecAnalysis) *)

\* a plain external request, as the logger records one made with no headers,
\* parameters or query text
FillEvent ==
    [type |-> "request", timestamp |-> 1,
     session_id |-> <<1, "local_benchmark">>,
     url |-> "https://api.example.com/search", domain |-> "api.example.com",
     headers |-> <<>>, params |-> <<>>, query_text |-> None,
     is_localhost |-> FALSE]

\* The events a store is extended with after its plain requests.
StoreEvents ==
    { \* a local request carrying query text, a header and an API key
      [type |-> "request", timestamp |-> 1,
       session_id |-> <<1, "local_benchmark">>,
       url |-> "http://localhost:11434/api/generate",
       domain |-> "localhost:11434",
       headers |-> << <<"User-Agent", "test">> >>,
       params |-> << <<"key", "K1">> >>,
       query_text |-> "weather", is_localhost |-> TRUE],
      \* the external request of the end-to-end scenario
      [type |-> "request", timestamp |-> 1,
       session_id |-> <<1, "local_benchmark">>,
       url |-> "https://api.example.com/search", domain |-> "api.example.com",
       headers |-> << <<"User-Agent", "test">> >>,
       params |-> <<>>,
       query_text |-> "weather", is_localhost |-> FALSE],
      \* an external request with API keys, a token and tracking headers
      [type |-> "request", timestamp |-> 1,
       session_id |-> <<1, "local_benchmark">>,
       url |-> "https://www.googleapis.com/customsearch/v1",
       domain |-> "www.googleapis.com",
       headers |-> << <<"Cookie", "sid=1">>, <<"Accept-Language", "en-US">> >>,
       params |-> << <<"key", "K1">>, <<"API_KEY", "K2">>,
                     <<"session_token", "T1">>, <<"q", "news">> >>,
       query_text |-> "news", is_localhost |-> FALSE],
      \* an older-format external request: no timestamp, session or query text
      [type |-> "request",
       url |-> "https://html.duckduckgo.com/html/",
       domain |-> "html.duckduckgo.com",
       headers |-> << <<"Accept", "*/*">>, <<"X-Trace", "1">>,
                      <<"Set-Cookie", "a=1">> >>,
       params |-> << <<"apikey", "K3">>, <<"cx", "17">> >>],
      \* a response
      [type |-> "response", timestamp |-> 1,
       session_id |-> <<1, "local_benchmark">>,
       request_id |-> 0, status_code |-> 200, headers |-> <<>>,
       response_size |-> 0, response_time |-> 0,
       url |-> "https://api.example.com/search", domain |-> "api.example.com"] }

InitAnalysis ==
    /\ logs = <<>>
    /\ session_id = NoSession
    /\ now = 0
    /\ file = NoFile
    /\ warnings = 0
    /\ handles = <<>>
    /\ an_state = "loaded"
    /\ \E n \in 0..MaxFill : an_logs = [i \in 1..n |-> FillEvent]
    /\ analysis = analyze_traffic(an_logs)
    /\ label = LabelOf(analysis)
    /\ pc = NoThreads
    /\ entry = NoThreads
    /\ result = NoResult
    /\ summary_file = NoFile
    /\ cloud_file = NoFile
    /\ comparison = NotComputed
    /\ an_file = LogPath

\* The store holds one more event; both passes run on it.
ExtendStore ==
    /\ Len(an_logs) - Len(SelectSeq(an_logs, LAMBDA e : e = FillEvent)) < MaxStore
    /\ \E e \in StoreEvents :
          /\ an_logs' = Append(an_logs, e)
          /\ analysis' = analyze_traffic(an_logs')
          /\ label' = LabelOf(analysis')
    /\ UNCHANGED <<logs, session_id, now, file, warnings, handles, an_state,
                   pc, entry,
                   result, summary_file, cloud_file, comparison, an_file>>

NextAnalysis == ExtendStore

SpecAnalysis == InitAnalysis /\ [][NextAnalysis]_vars

-----------------------------------------------------------------------------
(* The analyzer on stores of any content (SpecStore) *)

\* a request to the local model, as the logger records it
LocalEvent ==
    [FillEvent EXCEPT !.url = "http://localhost:11434/api/generate",
                      !.domain = "localhost:11434",
                      !.query_text = "weather",
                      !.is_localhost = TRUE]

\* The lines a line-delimited store is made of: whole records, the head of a
\* record whose rest never reached the file, and a blank line.
StoreLines ==
    { dumps(FillEvent), dumps(LocalEvent), << dumps(FillEvent)[1] >>, <<>> }

\* line-delimited stores of exactly n lines
RECURSIVE LinesOf(_)
LinesOf(n) ==
    IF n = 0 THEN { <<>> }
    ELSE { Append(ls, l) : ls \in LinesOf(n - 1), l \in StoreLines }

\* The files a path given to the analyzer may name: none, a line-delimited
\* store (its last line still open when that line is the head of a record),
\* or an aggregate document with its events under all_logs or under logs.
Stores ==
    { NoFile }
    \cup { [exists |-> TRUE, lines |-> ls,
            open |-> (ls # <<>> /\ ls[Len(ls)] = << dumps(FillEvent)[1] >>)] :
              ls \in UNION { LinesOf(n) : n \in 0..MaxLines } }
    \cup { WriteDocument([all_logs |-> << FillEvent, LocalEvent >>,
                          total_requests |-> 2]),
           WriteDocument([logs |-> << FillEvent >>]) }

InitStore ==
    /\ logs = <<>>
    /\ session_id = NoSession
    /\ now = 0
    /\ file \in Stores
    /\ warnings = 0
    /\ handles = <<>>
    /\ an_state = "none"
    /\ an_logs = <<>>
    /\ analysis = NotComputed
    /\ label = NotComputed
    /\ pc = NoThreads
    /\ entry = NoThreads
    /\ result = NoResult
    /\ summary_file = NoFile
    /\ cloud_file \in Stores
    /\ comparison = NotComputed
    /\ an_file = None

NextStore ==
    \/ Load
    \/ ExportReport
    \/ CompareWithCloud

SpecStore == InitStore /\ [][NextStore]_vars

-----------------------------------------------------------------------------
(* Concurrent callers: LoggingHTTPAdapter.send on a shared logger (SpecConc) *)

Threads == { 1, 2 }

\* The prepared requests sent through the session.
PreparedRequests ==
    { [method |-> "GET", url |-> "https://api.example.com/search",
       headers |-> << <<"User-Agent", "test">> >>, body |-> None],
      [method |-> "POST", url |-> "http://localhost:11434/api/generate",
       headers |-> << <<"Content-Type", "application/json">> >>,
       body |-> "{}"] }

\* the arguments send passes to log_request
SendArgs(request) ==
    [method |-> request.method, url |-> request.url,
     headers |-> request.headers, params |-> <<>>, data |-> request.body,
     query_type |-> None, query_text |-> None]

NoEntry == [type |-> "none"]

\* locals of a thread outside any call
Idle(calls) == [log_entry |-> NoEntry, request_log |-> 0, calls |-> calls]

\* create_logging_session: a logger with its session started, mounted on a
\* session that several threads use
InitConc ==
    /\ logs = <<>>
    /\ session_id = <<1, "session">>
    /\ now = 1
    /\ file = NoFile
    /\ warnings = 0
    /\ handles = <<>>
    /\ an_state = "none"
    /\ an_logs = <<>>
    /\ analysis = NotComputed
    /\ label = NotComputed
    /\ pc = [t \in Threads |-> "idle"]
    /\ entry = [t \in Threads |-> Idle(0)]
    /\ result = NoResult
    /\ summary_file = NoFile
    /\ cloud_file = NoFile
    /\ comparison = NotComputed
    /\ an_file = None

\* send: log_request builds log_entry
BuildRequest(t) ==
    /\ pc[t] = "idle"
    /\ SumSeq([u \in 1..Cardinality(Threads) |-> entry[u].calls]) < MaxSends
    /\ \E request \in PreparedRequests :
          entry' = [entry EXCEPT
                       ![t].log_entry =
                           RequestEntry(SendArgs(request), now + 1, session_id),
                       ![t].calls = @ + 1]
    /\ now' = now + 1
    /\ pc' = [pc EXCEPT ![t] = "req_built"]
    /\ UNCHANGED <<logs, session_id, file, warnings, handles, an_state,
                   an_logs, analysis, label,
                   result, summary_file, cloud_file, comparison, an_file>>

\* self.logs.append(log_entry), in log_request and in log_response
AppendEntry(t) ==
    /\ pc[t] \in {"req_built", "resp_built"}
    /\ logs' = Append(logs, entry[t].log_entry)
    /\ handles' = Append(handles,
                         IF pc[t] = "resp_built" THEN entry[t].request_log ELSE 0)
    /\ entry' = [entry EXCEPT
                    ![t].request_log =
                        IF pc[t] = "req_built" THEN Len(logs) + 1 ELSE @]
    /\ pc' = [pc EXCEPT ![t] = IF pc[t] = "req_built" THEN "req_appended"
                                ELSE "resp_appended"]
    /\ UNCHANGED <<session_id, now, file, warnings, an_state, an_logs,
                   analysis, label,
                   result, summary_file, cloud_file, comparison, an_file>>

\* where a thread is after _write_log returns
AfterWrite(t) == IF pc[t] \in {"req_appended", "req_head"} THEN "sending" ELSE "idle"

AfterWriteLocals(t) ==
    IF pc[t] \in {"req_appended", "req_head"} THEN entry[t]
    ELSE Idle(entry[t].calls)

\* _write_log: the record and its line break reach the file in one write
WriteWhole(t) ==
    /\ pc[t] \in {"req_appended", "resp_appended"}
    /\ file' = WriteLine(file, entry[t].log_entry)
    /\ pc' = [pc EXCEPT ![t] = AfterWrite(t)]
    /\ entry' = [entry EXCEPT ![t] = AfterWriteLocals(t)]
    /\ UNCHANGED <<logs, session_id, now, warnings, handles, an_state, an_logs,
                   analysis, label,
                   result, summary_file, cloud_file, comparison, an_file>>

\* _write_log: the buffered text reaches the file in two writes; this is the
\* first. No lock is held between the two.
WriteHead(t) ==
    /\ pc[t] \in {"req_appended", "resp_appended"}
    /\ file' = WriteChunks(file, <<dumps(entry[t].log_entry)[1]>>)
    /\ pc' = [pc EXCEPT ![t] = IF pc[t] = "req_appended" THEN "req_head"
                                ELSE "resp_head"]
    /\ UNCHANGED <<logs, session_id, now, warnings, handles, an_state, an_logs,
                   analysis, label, entry,
                   result, summary_file, cloud_file, comparison, an_file>>

\* the second write: the rest of the record and the line break
WriteRest(t) ==
    /\ pc[t] \in {"req_head", "resp_head"}
    /\ file' = WriteNewline(WriteChunks(file, <<dumps(entry[t].log_entry)[2]>>))
    /\ pc' = [pc EXCEPT ![t] = AfterWrite(t)]
    /\ entry' = [entry EXCEPT ![t] = AfterWriteLocals(t)]
    /\ UNCHANGED <<logs, session_id, now, warnings, handles, an_state, an_logs,
                   analysis, label,
                   result, summary_file, cloud_file, comparison, an_file>>

\* _write_log: open or write raises; the warning is printed
WriteFails(t) ==
    /\ pc[t] \in {"req_appended", "resp_appended"}
    /\ warnings < MaxWarnings
    /\ warnings' = warnings + 1
    /\ pc' = [pc EXCEPT ![t] = AfterWrite(t)]
    /\ entry' = [entry EXCEPT ![t] = AfterWriteLocals(t)]
    /\ UNCHANGED <<logs, session_id, now, file, handles, an_state, an_logs,
                   analysis, label,
                   result, summary_file, cloud_file, comparison, an_file>>

\* super().send(request) returns a response; log_response builds log_entry
BuildResponse(t) ==
    /\ pc[t] = "sending"
    /\ \E status_code \in StatusCodes :
          entry' = [entry EXCEPT
                       ![t].log_entry =
                           ResponseEntry(logs, entry[t].request_log, status_code,
                                         now + 1, session_id)]
    /\ now' = now + 1
    /\ pc' = [pc EXCEPT ![t] = "resp_built"]
    /\ UNCHANGED <<logs, session_id, file, warnings, handles, an_state,
                   an_logs, analysis, label,
                   result, summary_file, cloud_file, comparison, an_file>>

\* a send that logs a response although super().send(request) raised
SendRaisesMutant(t) ==
    /\ pc[t] = "sending"
    /\ \E status_code \in StatusCodes :
          logs' = Append(logs, ResponseEntry(logs, entry[t].request_log,
                                             status_code, now, session_id))
    /\ handles' = Append(handles, entry[t].request_log)
    /\ pc' = [pc EXCEPT ![t] = "idle"]
    /\ entry' = [entry EXCEPT ![t] = Idle(entry[t].calls)]
    /\ UNCHANGED <<session_id, now, file, warnings, an_state,
                   an_logs, analysis, label,
                   result, summary_file, cloud_file, comparison, an_file>>

\* super().send(request) raises: send ends without log_response
SendRaises(t) ==
    /\ pc[t] = "sending"
    /\ pc' = [pc EXCEPT ![t] = "idle"]
    /\ entry' = [entry EXCEPT ![t] = Idle(entry[t].calls)]
    /\ UNCHANGED <<logs, session_id, now, file, warnings, handles, an_state,
                   an_logs, analysis, label,
                   result, summary_file, cloud_file, comparison, an_file>>

NextConc ==
    \E t \in Threads :
        \/ BuildRequest(t)
        \/ AppendEntry(t)
        \/ WriteWhole(t)
        \/ WriteHead(t)
        \/ WriteRest(t)
        \/ WriteFails(t)
        \/ BuildResponse(t)
        \/ SendRaises(t)

SpecConc == InitConc /\ [][NextConc]_vars

\* The same callers when every append reaches the file in one write: the
\* event sequence does not depend on how the text of a record is written.
NextWrap ==
    \E t \in Threads :
        \/ BuildRequest(t)
        \/ AppendEntry(t)
        \/ WriteWhole(t)
        \/ WriteFails(t)
        \/ BuildResponse(t)
        \/ SendRaises(t)

SpecWrap == InitConc /\ [][NextWrap]_vars

-----------------------------------------------------------------------------
(* Properties *)

Last(s) == s[Len(s)]

\* C1: every response's request_id is the position of a request event appended
\* earlier, and that event is the request_log the caller passed to log_response.
\* (request_id is a 0-based position; handles and logs are indexed from 1.)
C1_BackReference ==
    \A p \in 1..Len(logs) :
        IsResponse(logs[p]) =>
            /\ logs[p].request_id + 1 \in 1..(p - 1)
            /\ IsRequest(logs[logs[p].request_id + 1])
            /\ logs[p].request_id + 1 = handles[p]

\* the domains of the request events of a sequence
RequestDomains(s) == { s[i].domain : i \in RequestPositions(s) }

\* C2: once the analyzer has loaded a store to which every logged event was
\* written, it holds as many request events as the logger's sequence and the
\* same set of domains.
C2_RoundTrip ==
    (an_state # "none" /\ logs # <<>> /\ warnings = 0) =>
        /\ an_state = "loaded"
        /\ Cardinality(RequestPositions(an_logs)) = Cardinality(RequestPositions(logs))
        /\ RequestDomains(an_logs) = RequestDomains(logs)

\* the counts of get_summary() are those of the events appended so far
SummaryCounts ==
    /\ DOMAIN get_summary # {}
    /\ get_summary.total_requests = Cardinality(RequestPositions(logs))
    /\ get_summary.total_responses =
           Cardinality({ i \in 1..Len(logs) : logs[i].type = "response" })

\* C3 as stated: after any sequence of log calls, the empty one included,
\* get_summary().total_requests is the number of request events appended and
\* total_responses the number of response events.
C3_SummaryCounts == SummaryCounts

\* C3 amended: the same, once at least one event has been logged.
C3_SummaryCountsNonEmpty == logs # <<>> => SummaryCounts

C3_Witness ==
    /\ Len(logs) = 3
    /\ IsRequest(logs[1]) /\ IsResponse(logs[2]) /\ IsRequest(logs[3])
    /\ get_summary.total_requests = 2

\* C4: every finished line of the store is the whole text of exactly one record.
C4_WholeLines ==
    \A i \in 1..Len(file.lines) :
        (i < Len(file.lines) \/ ~file.open) => WellFormed(file.lines[i])

-----------------------------------------------------------------------------
(* Properties of the analysis passes *)

Max0(n) == IF n < 0 THEN 0 ELSE n

\* the <<header, occurrence>> positions of the findings whose risk is HIGH
HighFindings(a) ==
    UNION { { <<i, j>> : j \in { k \in 1..Len(a.headers_analysis[i][2]) :
                SubSeq(a.headers_analysis[i][2][k].privacy_risk, 1, 4) = "HIGH" } } :
            i \in 1..Len(a.headers_analysis) }

\* C5: in the non-localhost branch the score is 100 less 10 per distinct
\* external domain, 5 per leaked query, 15 per API-key exposure, 3 per distinct
\* header type, 5 per HIGH-risk header occurrence, 5 for IP exposure and 3 for
\* more than 20 timing observations, floored at 0.
C5_ScoreFormula ==
    ~analysis.localhost_only =>
        label.privacy_score =
            Max0(100
                 - 10 * Cardinality({ analysis.external_domains[i] :
                                        i \in 1..Len(analysis.external_domains) })
                 - 5 * Len(analysis.query_data_leaked)
                 - 15 * Len(analysis.api_keys_exposed)
                 - 3 * Cardinality({ analysis.headers_analysis[i][1] :
                                       i \in 1..Len(analysis.headers_analysis) })
                 - 5 * Cardinality(HighFindings(analysis))
                 - (IF analysis.ip_address_exposure THEN 5 ELSE 0)
                 - (IF Len(analysis.timing_patterns) > 20 THEN 3 ELSE 0))

C5_Witness ==
    /\ ~analysis.localhost_only
    /\ Len(analysis.timing_patterns) > 20
    /\ Len(analysis.api_keys_exposed) > 0
    /\ Cardinality(HighFindings(analysis)) > 0
    /\ Len(analysis.external_domains) > 1
    /\ label.privacy_score \in 1..99

\* C6: the privacy score is an integer from 0 to 100.
C6_ScoreRange == label.privacy_score \in 0..100

C6_Witness == label.privacy_score = 0 /\ RawScore(analysis) < 0

\* C7: appending one further request event to a store never raises the score.
C7_Monotone ==
    [][(an_logs' # an_logs /\ IsRequest(Last(an_logs')))
           => label'.privacy_score <= label.privacy_score]_vars

C7_Witness ==
    /\ Len(an_logs) >= 2
    /\ IsRequest(Last(an_logs))
    /\ Last(an_logs) # FillEvent
    /\ label.privacy_score > 0
    /\ label.privacy_score <
           generate_privacy_label(SubSeq(an_logs, 1, Len(an_logs) - 1)).privacy_score

\* C8: a store whose requests all have is_localhost true is labelled
\* Local/Self-Hosted with score 100, whatever the requests carry.
C8_LocalhostOnly ==
    (\A i \in RequestPositions(an_logs) : Get(an_logs[i], "is_localhost", FALSE))
        => /\ label.privacy_score = 100
           /\ label.system = "Local/Self-Hosted"

C8_Witness ==
    /\ \A i \in RequestPositions(an_logs) : Get(an_logs[i], "is_localhost", FALSE)
    /\ \E i \in RequestPositions(an_logs) :
          /\ Truthy(an_logs[i].query_text)
          /\ an_logs[i].headers # <<>>
          /\ an_logs[i].params # <<>>
    /\ label.privacy_score = 100

\* the request of the end-to-end scenario, as log_request records it
ScenarioRequest(e) ==
    /\ IsRequest(e)
    /\ e.domain = "api.example.com"
    /\ e.query_text = "weather"
    /\ e.headers = << <<"User-Agent", "test">> >>
    /\ e.params = <<>>

\* C9: the store holding only the scenario's request, written by log_request
\* and loaded by the analyzer, gives external_domains = ["api.example.com"],
\* one leaked query, one HIGH-risk header finding and score 72.
C9_EndToEnd ==
    (/\ Len(logs) = 1 /\ ScenarioRequest(logs[1]) /\ warnings = 0
     /\ an_state # "none" /\ analysis # NotComputed)
        => /\ analysis.external_domains = << "api.example.com" >>
           /\ Len(analysis.query_data_leaked) = 1
           /\ Cardinality(HighFindings(analysis)) = 1
           /\ label.privacy_score = 72

\* the <<domain, name>> of every parameter named key, api_key or apikey (in any
\* case) of the request events of s, localhost or external, in order
RECURSIVE ApiKeyParams(_)
ApiKeyParams(s) ==
    IF s = <<>> THEN <<>>
    ELSE (IF IsRequest(s[1])
          THEN LET params == Get(s[1], "params", <<>>)
                   named == SelectSeq(params, LAMBDA p : Lower(p[1]) \in ApiKeyNames)
               IN  [i \in 1..Len(named) |->
                       <<Get(s[1], "domain", "unknown"), named[i][1]>>]
          ELSE <<>>)
         \o ApiKeyParams(Tail(s))

\* C10: the API-key exposures are exactly the parameters of the request events
\* (localhost or external) named key, api_key or apikey in any case; a
\* parameter whose name contains token is among the sensitive parameters of
\* its request and is no API-key exposure.
C10_ApiKeyExposure ==
    /\ [i \in 1..Len(analysis.api_keys_exposed) |->
           <<analysis.api_keys_exposed[i].domain, analysis.api_keys_exposed[i].param>>]
       = ApiKeyParams(an_logs)
    /\ \A i \in RequestPositions(an_logs) :
          \A k \in 1..Len(Get(an_logs[i], "params", <<>>)) :
              LET name == an_logs[i].params[k][1]
              IN  (Contains(Lower(name), "token") /\ Lower(name) \notin ApiKeyNames)
                  => /\ \E m \in 1..Len(analysis.metadata_exposure) :
                            \E n \in 1..Len(analysis.metadata_exposure[m].sensitive_params) :
                                analysis.metadata_exposure[m].sensitive_params[n] = name
                     /\ \A m \in 1..Len(analysis.api_keys_exposed) :
                            analysis.api_keys_exposed[m].param # name

-----------------------------------------------------------------------------
(* Properties of localhost requests in the analysis *)

\* C11: a request with is_localhost true still contributes to the later steps
\* of analyze_traffic: its non-empty query_text is in query_data_leaked, its
\* sensitive headers in headers_analysis, its parameters in metadata_exposure
\* and (when named as an API key) in api_keys_exposed, and its timestamp in
\* timing_patterns.
C11_LocalhostContributes ==
    \A i \in RequestPositions(an_logs) :
        Get(an_logs[i], "is_localhost", FALSE) =>
            LET req == an_logs[i]
                domain == Get(req, "domain", "unknown")
                headers == Get(req, "headers", <<>>)
                params == Get(req, "params", <<>>)
            IN  /\ Truthy(Get(req, "query_text", None)) =>
                       \E k \in 1..Len(analysis.query_data_leaked) :
                           /\ analysis.query_data_leaked[k].domain = domain
                           /\ analysis.query_data_leaked[k].query = req.query_text
                /\ \A h \in 1..Len(headers) :
                       (\E j \in 1..Len(SensitiveHeaders) :
                            Contains(Lower(headers[h][1]), SensitiveHeaders[j]))
                       => \E m \in 1..Len(analysis.headers_analysis) :
                              /\ analysis.headers_analysis[m][1] = headers[h][1]
                              /\ \E n \in 1..Len(analysis.headers_analysis[m][2]) :
                                     analysis.headers_analysis[m][2][n].domain = domain
                /\ params # <<>> =>
                       \E m \in 1..Len(analysis.metadata_exposure) :
                           analysis.metadata_exposure[m].domain = domain
                /\ \A k \in 1..Len(params) :
                       Lower(params[k][1]) \in ApiKeyNames =>
                           \E m \in 1..Len(analysis.api_keys_exposed) :
                               /\ analysis.api_keys_exposed[m].domain = domain
                               /\ analysis.api_keys_exposed[m].param = params[k][1]
                /\ Get(req, "timestamp", 0) # 0 =>
                       \E k \in 1..Len(analysis.timing_patterns) :
                           analysis.timing_patterns[k].domain = domain

-----------------------------------------------------------------------------
(* Properties of failing appends *)

\* C12: a log call whose durable append fails does not raise: the failure is
\* reported, the event is appended to the in-memory sequence and returned to
\* the caller; and every log call made after a failure still appends its event
\* and returns it.
C12_WriteFailureTolerated ==
    [][/\ warnings' > warnings =>
              /\ Len(logs') = Len(logs) + 1
              /\ SubSeq(logs', 1, Len(logs)) = logs
              /\ file' = file
       /\ (warnings' > 0 /\ result' # result
              /\ result'.op \in {"log_request", "log_response", "raise"}) =>
              /\ result'.op # "raise"
              /\ Len(logs') = Len(logs) + 1
              /\ result'.value = Last(logs')]_vars

C12_Witness ==
    /\ warnings = 1
    /\ Len(logs) = 3
    /\ Len(file.lines) = 2
    /\ loads(file.lines[1]) = logs[2]
    /\ loads(file.lines[2]) = logs[3]
    /\ result.op = "log_response"

-----------------------------------------------------------------------------
(* Properties of loading a store *)

\* the step in which the analyzer is constructed on the file at log_file
Loading == an_state = "none" /\ an_state' # "none"

\* a line of a line-delimited store that is neither blank nor a whole record
Malformed(line) == line # <<>> /\ ~WellFormed(line) /\ ~IsDocument(line)

\* C13: loading a line-delimited store with a malformed line (a partial
\* trailing line included) does not fail: the malformed line is skipped and
\* every well-formed line is loaded as an event.
C13_MalformedSkipped ==
    [][(Loading /\ file.exists
          /\ \E i \in 1..Len(file.lines) : Malformed(file.lines[i]))
       => /\ an_state' = "loaded"
          /\ an_logs' = [i \in 1..Len(SelectSeq(file.lines, WellFormed)) |->
                            SelectSeq(file.lines, WellFormed)[i][1].of]]_vars

\* C14: loading a path that does not exist ends in the load-error outcome;
\* no analysis, label or comparison is ever made from it.
C14_MissingPath ==
    /\ (an_state # "none" /\ ~file.exists)
           => /\ an_state = "exit"
              /\ analysis = NotComputed
              /\ label = NotComputed
              /\ comparison = NotComputed
    /\ ~cloud_file.exists => comparison = NotComputed

C14_Witness ==
    /\ an_state = "exit"
    /\ ~file.exists
    /\ cloud_file.exists
    /\ cloud_file.lines # <<>>

-----------------------------------------------------------------------------
(* Properties of the comparator *)

\* C15: running the comparison again on the same two unchanged stores yields
\* an identical document, comparison_date included.
C15_Deterministic ==
    [][(comparison # NotComputed /\ comparison' # NotComputed
          /\ file' = file /\ cloud_file' = cloud_file)
       => comparison' = comparison]_vars

\* C16: in compare(A, B) the local_system block and the local values of
\* key_differences are what the passes give on store A alone, the cloud_system
\* block and the cloud values what they give on store B alone.
C16_NoCrossContamination ==
    comparison # NotComputed =>
        LET A == load_logs(file).logs
            B == load_logs(cloud_file).logs
        IN  /\ comparison.local_system =
                   [analysis |-> analyze_traffic(A),
                    privacy_label |-> generate_privacy_label(A)]
            /\ comparison.cloud_system =
                   [analysis |-> analyze_traffic(B),
                    privacy_label |-> generate_privacy_label(B)]
            /\ comparison.key_differences =
                   [external_domains |->
                        [local |-> Len(analyze_traffic(A).external_domains),
                         cloud |-> Len(analyze_traffic(B).external_domains)],
                    query_exposure |->
                        [local |-> Len(analyze_traffic(A).query_data_leaked),
                         cloud |-> Len(analyze_traffic(B).query_data_leaked)],
                    privacy_score |->
                        [local |-> generate_privacy_label(A).privacy_score,
                         cloud |-> generate_privacy_label(B).privacy_score]]

C16_Witness ==
    /\ comparison # NotComputed
    /\ comparison.local_system.analysis.total_requests = 2
    /\ comparison.cloud_system.analysis.total_requests = 1
    /\ comparison.key_differences.privacy_score.local = 85
    /\ comparison.key_differences.privacy_score.cloud = 100

-----------------------------------------------------------------------------
(* Properties of the logger's sequence, store and session *)

\* C17: after any operation the sequence that existed before it is an
\* unchanged prefix of the sequence after it.
C17_AppendOnly ==
    [][/\ Len(logs') >= Len(logs)
       /\ SubSeq(logs', 1, Len(logs)) = logs]_vars

C17_Witness ==
    /\ Len(logs) = 2
    /\ IsResponse(logs[2])
    /\ result.op = "export_summary"
    /\ result.value.all_logs = logs
    /\ session_id # NoSession

\* C18: a log call whose append succeeds adds exactly one line, its record, to
\* the store; start_session, get_summary and export_summary leave the store as
\* it is.
C18_OneRecordPerCall ==
    [][/\ (Len(logs') > Len(logs) /\ warnings' = warnings)
              => /\ file'.exists
                 /\ file'.lines = Append(file.lines, dumps(Last(logs')))
                 /\ ~file'.open
       /\ logs' = logs => file' = file]_vars

C18_Witness ==
    /\ Len(file.lines) = 2
    /\ Len(logs) = 2
    /\ summary_file.exists
    /\ loads(summary_file.lines[1]).all_logs = << logs[1] >>
    /\ session_id # NoSession

\* C19: start_session leaves the events already appended with the session id
\* they were logged with, and every event appended afterwards carries the
\* session id in force when it is logged.
C19_SessionOverwrite ==
    [][/\ \A i \in 1..Len(logs) :
              /\ i <= Len(logs')
              /\ logs'[i].session_id = logs[i].session_id
       /\ Len(logs') > Len(logs) =>
              /\ Last(logs').session_id = session_id
              /\ session_id' = session_id]_vars

C19_Witness ==
    /\ Len(logs) = 2
    /\ logs[1].session_id # NoSession
    /\ logs[2].session_id # NoSession
    /\ logs[1].session_id # logs[2].session_id
    /\ logs[2].session_id = session_id

\* C20: no event of the sequence has an absent session id, also when
\* log_request is the first operation on a fresh logger.
C20_SessionPresent ==
    \A i \in 1..Len(logs) : logs[i].session_id # NoSession

-----------------------------------------------------------------------------
(* Properties of the aggregate document and of redaction *)

\* C21: the document export_summary wrote, loaded by the analyzer, gives the
\* logger's in-memory event sequence, in order. (result still holds what
\* export_summary returned, so no log call has followed the export.)
C21_AggregateRoundTrip ==
    (an_file = SummaryPath /\ result.op = "export_summary")
        => /\ an_state = "loaded"
           /\ an_logs = logs

C21_Witness ==
    /\ an_file = SummaryPath
    /\ result.op = "export_summary"
    /\ an_state = "loaded"
    /\ Len(an_logs) = 2
    /\ IsRequest(an_logs[1])
    /\ IsResponse(an_logs[2])
    /\ an_logs = logs

\* a header name that contains one of the tokens to redact, in any case
NamesSecret(name) ==
    \E tok \in {"authorization", "cookie", "token", "api-key", "secret"} :
        Contains(Lower(name), tok)

\* the redacted header map `redacted` is the supplied one with the value of
\* every header to redact replaced by the marker
RedactedFrom(supplied, redacted) ==
    /\ Len(redacted) = Len(supplied)
    /\ \A k \in 1..Len(supplied) :
           /\ redacted[k][1] = supplied[k][1]
           /\ redacted[k][2] =
                  IF NamesSecret(supplied[k][1]) THEN "[REDACTED]"
                  ELSE supplied[k][2]

\* C22 as stated: every record log_request builds has a headers_redacted map
\* with exactly the keys of the supplied header map; the value of a header
\* whose lowercased name contains authorization, cookie, token, api-key or
\* secret is the redaction marker and every other header keeps its value.
C22_RedactionAlways ==
    [][(Len(logs') > Len(logs) /\ IsRequest(Last(logs'))) =>
          /\ "headers_redacted" \in DOMAIN Last(logs')
          /\ RedactedFrom(Last(logs').headers, Last(logs').headers_redacted)
      ]_vars

\* C22, amended: a record built from a non-empty header map has a
\* headers_redacted map with exactly the supplied keys, the marker as the
\* value of every header to redact and the original value of every other; a
\* record built from no header or an empty map has no headers_redacted.
C22_Redaction ==
    [][(Len(logs') > Len(logs) /\ IsRequest(Last(logs'))) =>
          IF Last(logs').headers # <<>>
          THEN /\ "headers_redacted" \in DOMAIN Last(logs')
               /\ RedactedFrom(Last(logs').headers, Last(logs').headers_redacted)
          ELSE "headers_redacted" \notin DOMAIN Last(logs')
      ]_vars

C22_Witness ==
    \E i \in RequestPositions(logs) :
        /\ "headers_redacted" \in DOMAIN logs[i]
        /\ logs[i].headers_redacted =
               << <<"Authorization", "[REDACTED]">>, <<"Accept", "*/*">>,
                  <<"X-Api-Key", "[REDACTED]">> >>

\* no header map of record e holds the value of a header to redact
NoSecretIn(e) ==
    \A f \in {"headers", "headers_redacted"} \cap DOMAIN e :
        \A k \in 1..Len(e[f]) :
            NamesSecret(e[f][k][1]) => e[f][k][2] = "[REDACTED]"

\* C29: no record in the store, and no record in the document export_summary
\* wrote, holds the original value of a header whose name contains
\* authorization, cookie, token, api-key or secret.
C29_NoSecretPersisted ==
    /\ \A i \in 1..Len(file.lines) : NoSecretIn(loads(file.lines[i]))
    /\ summary_file.exists =>
           \A i \in 1..Len(loads(summary_file.lines[1]).all_logs) :
               NoSecretIn(loads(summary_file.lines[1]).all_logs[i])

-----------------------------------------------------------------------------
(* Properties of the transport wrapper and of concurrent callers *)

\* the events of s of one type
CountOf(s, type) == Cardinality({ i \in 1..Len(s) : s[i].type = type })

\* C23: every response the wrapper logs comes after the request of its own
\* call, which is a request event; there are never more responses than
\* requests; no request has two responses; and when a send fails, the call
\* ends with its request logged and no response for it.
C23_WrapperOrder ==
    [][/\ \A p \in 1..Len(logs') :
              IsResponse(logs'[p]) =>
                  /\ handles'[p] \in 1..(p - 1)
                  /\ IsRequest(logs'[handles'[p]])
                  /\ \A q \in 1..Len(logs') :
                         (IsResponse(logs'[q]) /\ handles'[q] = handles'[p])
                             => q = p
       /\ CountOf(logs', "response") <= CountOf(logs', "request")
       /\ \A t \in Threads :
              (pc[t] = "sending" /\ pc'[t] = "idle") =>
                  /\ logs' = logs
                  /\ IsRequest(logs[entry[t].request_log])
                  /\ \A q \in 1..Len(logs) :
                         IsResponse(logs[q]) => handles[q] # entry[t].request_log
      ]_vars

C23_Witness ==
    /\ Len(logs) = 3
    /\ IsRequest(logs[1]) /\ IsRequest(logs[2]) /\ IsResponse(logs[3])
    /\ handles[3] = 1
    /\ \A t \in Threads : pc[t] = "idle"

\* C28: when no write has failed and no call is between its append and the end
\* of its write, the records of the store are the events of the in-memory
\* sequence, in the same order. (Stated for stores whose lines are all whole.)
C28_SameOrder ==
    (/\ warnings = 0
     /\ \A t \in Threads : pc[t] \in {"idle", "sending"}
     /\ \A i \in 1..Len(file.lines) : WellFormed(file.lines[i]))
        => /\ Len(file.lines) = Len(logs)
           /\ \A i \in 1..Len(logs) : loads(file.lines[i]) = logs[i]

-----------------------------------------------------------------------------
(* Properties of the analysis of a store *)

\* every event of s that is no request replaced by an event of another type,
\* and one more response added
OthersChanged(s) ==
    [i \in 1..Len(s) |->
        IF IsRequest(s[i]) THEN s[i]
        ELSE [type |-> "error", domain |-> "other.example.com",
              is_localhost |-> FALSE, query_text |-> "x"]]
    \o << [type |-> "response", domain |-> "other.example.com",
           status_code |-> 500, headers |-> << <<"Cookie", "c">> >>] >>

\* C24: the analysis and the label of a store are those of its request events
\* alone: removing every other event, changing them or adding one changes
\* neither.
C24_OnlyRequests ==
    /\ analysis = analyze_traffic(SelectSeq(an_logs, IsRequest))
    /\ analysis = analyze_traffic(OthersChanged(an_logs))
    /\ label = generate_privacy_label(SelectSeq(an_logs, IsRequest))
    /\ label = generate_privacy_label(OthersChanged(an_logs))

C24_Witness ==
    /\ Len(an_logs) = 3
    /\ IsRequest(an_logs[1]) /\ IsResponse(an_logs[2]) /\ IsResponse(an_logs[3])
    /\ analysis.total_requests = 1
    /\ label.privacy_score < 100

\* positions of the request events of s whose is_localhost is not true
ExternalPositions(s) ==
    { i \in RequestPositions(s) : ~Get(s[i], "is_localhost", FALSE) }

\* C25: localhost_only holds exactly when no request event is external,
\* ip_address_exposure exactly when one is; so each is the negation of the
\* other, and a store with no request event is localhost_only.
C25_LocalhostFlags ==
    /\ analysis.localhost_only <=> ExternalPositions(an_logs) = {}
    /\ analysis.ip_address_exposure <=> ExternalPositions(an_logs) # {}
    /\ analysis.ip_address_exposure = ~analysis.localhost_only

C25_Witness ==
    /\ Len(an_logs) = 2
    /\ RequestPositions(an_logs) = {}
    /\ analysis.localhost_only
    /\ ~analysis.ip_address_exposure

\* the position in s of the first external request to domain d
FirstExternal(s, d) ==
    CHOOSE p \in ExternalPositions(s) :
        /\ Get(s[p], "domain", "unknown") = d
        /\ \A q \in ExternalPositions(s) :
               Get(s[q], "domain", "unknown") = d => p <= q

\* C26: external_domains holds each domain of an external request once, in
\* the order of first occurrence, and no other domain.
C26_ExternalDomains ==
    LET ed == analysis.external_domains
    IN  /\ { ed[i] : i \in 1..Len(ed) } =
               { Get(an_logs[p], "domain", "unknown") :
                     p \in ExternalPositions(an_logs) }
        /\ \A i, j \in 1..Len(ed) :
               i < j => /\ ed[i] # ed[j]
                        /\ FirstExternal(an_logs, ed[i]) < FirstExternal(an_logs, ed[j])

C26_Witness ==
    /\ analysis.external_domains = << "www.googleapis.com", "api.example.com" >>
    /\ Len(an_logs) = 3
    /\ Get(an_logs[1], "is_localhost", FALSE)
    /\ an_logs[2].domain = "www.googleapis.com"
    /\ an_logs[3].domain = "api.example.com"
    /\ Len(analysis.domains_contacted) = 3

\* the fixed set of header names
SensitiveNames ==
    { "user-agent", "referer", "cookie", "accept", "accept-language",
      "accept-encoding", "dnt", "connection", "upgrade-insecure-requests" }

\* C27: a header of an analysed (external) request has a finding exactly when
\* its lowercased name is one of the fixed set; a name that only contains one
\* of them has none.
C27_ExactHeaderNames ==
    /\ \A m \in 1..Len(analysis.headers_analysis) :
           Lower(analysis.headers_analysis[m][1]) \in SensitiveNames
    /\ \A p \in ExternalPositions(an_logs) :
           \A k \in 1..Len(Get(an_logs[p], "headers", <<>>)) :
               Lower(an_logs[p].headers[k][1]) \in SensitiveNames =>
                   \E m \in 1..Len(analysis.headers_analysis) :
                       analysis.headers_analysis[m][1] = an_logs[p].headers[k][1]

\* the sum of the per-domain counts of a summary, over the domains in S
RECURSIVE SumCounts(_, _)
SumCounts(domains, S) ==
    IF S = {} THEN 0
    ELSE LET d == CHOOSE x \in S : TRUE
         IN  domains[d].count + SumCounts(domains, S \ {d})

\* C30: in a non-empty logger state, localhost_requests + external_requests
\* and the sum of the per-domain counts are total_requests, and unique_domains
\* is the number of distinct domains of the request events; in an analysis the
\* domains_contacted counts sum to total_requests.
C30_CountsPartition ==
    /\ logs # <<>> =>
           /\ get_summary.localhost_requests + get_summary.external_requests
                  = get_summary.total_requests
           /\ SumCounts(get_summary.domains, DOMAIN get_summary.domains)
                  = get_summary.total_requests
           /\ get_summary.unique_domains = Cardinality(RequestDomains(logs))
    /\ analysis # NotComputed =>
           SumSeq([i \in 1..Len(analysis.domains_contacted) |->
                      analysis.domains_contacted[i][2]])
               = analysis.total_requests

C30_Witness ==
    /\ Len(logs) = 3
    /\ get_summary.total_requests = 3
    /\ get_summary.unique_domains = 2
    /\ get_summary.localhost_requests = 1
    /\ analysis # NotComputed
    /\ analysis.total_requests = 3
    /\ Len(analysis.domains_contacted) = 2

====
